---- MODULE Spec2Model ----
(***************************************************************************)
(* Engram episode store (internal/db: Store over an embedded DuckDB file)  *)
(* and the two adapters that call it (internal/api HTTP handlers and the   *)
(* MCP tool handlers).                                                     *)
(*                                                                         *)
(* The episodes table is a set of rows; the engine's constraints (PRIMARY  *)
(* KEY on id, the fixed-size FLOAT[768] column) are explicit checks of the *)
(* INSERT.  Instants are integers counting microseconds, the resolution of *)
(* a TIMESTAMPTZ column; 0 is Go's zero time.Time.  An optional value (a   *)
(* NULL-able column, a Go pointer or a nil-able slice) is a sequence of    *)
(* length 0 (absent) or 1 (present).                                       *)
(***************************************************************************)
EXTENDS Integers, Sequences, FiniteSets, TLC

VARIABLES
    store,      \* the rows of table episodes
    now,        \* the wall clock (time.Now() and CURRENT_TIMESTAMP)
    uuidCount,  \* how many ids uuid.New() has handed out
    assigned,   \* history: the id and content of every row ever stored
    res,        \* the last call: its arguments and what it returned
    schema,     \* the episodes table and its indexes in the database file
    proc,       \* the process: where main is and the state of the engine handle
    calls       \* the write statements callers have started and not finished

vars == <<store, now, uuidCount, assigned, res, schema, proc, calls>>

\* Every id a stored row has ever had.
UsedIds == {h.id : h \in assigned}

\* Bounds of the model.
MaxEpisodes == 2
MaxUUIDs == 2
MaxTime == 2
MaxStored == 11

\* FLOAT[768]: the embedding column's fixed size.
EmbeddingDim == 768
\* LIMIT 10 when MaxResults is not positive.
DefaultMaxResults == 10

ZeroTime == 0

Null == <<>>
Some(v) == <<v>>
IsNull(o) == o = <<>>
\* The elements of a nil-able Go slice: a nil slice has none.
Elems(o) == IF o = <<>> THEN <<>> ELSE o[1]
SeqToSet(s) == {s[i] : i \in 1..Len(s)}
\* len() of a nil-able []float32.
VecLen(o) == IF o = <<>> THEN 0 ELSE o[1].dim

(***************************************************************************)
(* Values.  A float32 vector is its length and its two leading components  *)
(* (in tenths), every later component being 0.  A metadata string is       *)
(* either the empty string or the text of a JSON object, given by the      *)
(* sequence of its member keys as written; key k stands for the member     *)
(* "k": <value of k>, and keys are numbered in byte order.                 *)
(***************************************************************************)
Vec(n, x, y) == [dim |-> n, lead |-> <<x, y>>]
\* A vector of n components one of which is NaN.
NaNVec(n) == [dim |-> n, lead |-> <<0, 0>>, nan |-> TRUE]
EmptyString == [obj |-> FALSE, members |-> <<>>]
JsonObject(keys) == [obj |-> TRUE, members |-> keys]

RECURSIVE SortedKeys(_)
SortedKeys(S) ==
    IF S = {} THEN <<>>
    ELSE LET m == CHOOSE k \in S : \A j \in S : k <= j
         IN <<m>> \o SortedKeys(S \ {m})

\* json.Unmarshal of an object text into map[string]interface{}: the
\* members by key, their order and repetitions gone.
JsonUnmarshalMap(text) == SeqToSet(text.members)
\* json.Marshal of a map: compact, the keys sorted.
JsonMarshalMap(m) == JsonObject(SortedKeys(m))

(***************************************************************************)
(* InsertEpisode                                                           *)
(***************************************************************************)
Ids(rows) == {r.id : r \in rows}
RowOf(rows, id) == CHOOSE r \in rows : r.id = id

\* uuid.New().String(): an id no row has had and no caller has supplied.
NewUUID == "uuid-" \o ToString(uuidCount + 1)

NoDefaultGroup(g) == g
DefaultGroup(g) == IF g = "" THEN "default" ELSE g

\* The caller's record after the assignments InsertEpisode makes in place.
AssignDefaults(ep) ==
    [ep EXCEPT !.ID = IF @ = "" THEN NewUUID ELSE @,
               !.CreatedAt = IF @ = ZeroTime THEN now ELSE @,
               !.GroupID = DefaultGroup(@)]

EncodeEmbeddingAlways(emb) == IF emb = Null THEN Some(Vec(0, 0, 0)) ELSE emb
\* The embedding parameter of the INSERT: NULL for a nil or empty vector.
EncodeEmbedding(emb) == IF VecLen(emb) > 0 THEN emb ELSE Null

\* The bound parameters of the INSERT: an empty collection and an empty
\* metadata string are passed as NULL.
InsertRow(ep) ==
    [id |-> ep.ID, content |-> ep.Content, name |-> ep.Name,
     source |-> ep.Source, source_model |-> ep.SourceModel,
     source_description |-> ep.SourceDescription, group_id |-> ep.GroupID,
     tags |-> IF Len(Elems(ep.Tags)) > 0 THEN Some(Elems(ep.Tags)) ELSE Null,
     embedding |-> EncodeEmbedding(ep.Embedding),
     created_at |-> ep.CreatedAt, valid_at |-> ep.ValidAt,
     expired_at |-> ep.ExpiredAt,
     metadata |-> IF ep.Metadata # EmptyString THEN Some(ep.Metadata) ELSE Null]

PrimaryKeyFree(rows, row) == row.id \notin Ids(rows)

AcceptsAnyVector(rows, row) == PrimaryKeyFree(rows, row)
\* The engine takes the row: id is the PRIMARY KEY and a non-NULL embedding
\* must cast to FLOAT[768].
EngineAcceptsInsert(rows, row) ==
    /\ PrimaryKeyFree(rows, row)
    /\ IsNull(row.embedding) \/ row.embedding[1].dim = EmbeddingDim

\* What one InsertEpisode call does: the caller's record afterwards, the
\* row offered to the engine, and whether the engine committed it.
InsertOutcome(ep, engineUp) ==
    LET ep1 == AssignDefaults(ep)
        row == InsertRow(ep1)
        ok == engineUp /\ EngineAcceptsInsert(store, row)
    IN [ep |-> ep1, row |-> row, ok |-> ok,
        err |-> IF ok THEN "" ELSE "failed to insert episode"]

\* The state after an insert attempt of ep (the result variable apart).
InsertEffect(ep, out) ==
    /\ ep.ID = "" => uuidCount < MaxUUIDs
    /\ Cardinality(store) < MaxEpisodes
    /\ store' = IF out.ok THEN store \cup {out.row} ELSE store
    /\ assigned' = IF out.ok
                   THEN assigned \cup {[id |-> out.row.id, content |-> out.row.content]}
                   ELSE assigned
    /\ uuidCount' = IF ep.ID = "" THEN uuidCount + 1 ELSE uuidCount
    /\ UNCHANGED <<now, schema, proc, calls>>

InsertEpisode(ep, engineUp) ==
    LET out == InsertOutcome(ep, engineUp)
    IN /\ InsertEffect(ep, out)
       /\ res' = [op |-> "insert", arg |-> ep, ep |-> out.ep, err |-> out.err]

(***************************************************************************)
(* scanEpisode / scanEpisodes: a row decoded into a models.Episode         *)
(***************************************************************************)
\* A JSON column comes back as a map[string]interface{} and is re-encoded.
DecodeMetadata(text) == JsonMarshalMap(JsonUnmarshalMap(text))

scanEpisode(row) ==
    [ID |-> row.id, Content |-> row.content, Name |-> row.name,
     Source |-> row.source, SourceModel |-> row.source_model,
     SourceDescription |-> row.source_description, GroupID |-> row.group_id,
     Tags |-> IF IsNull(row.tags) THEN Null ELSE Some(row.tags[1]),
     Embedding |-> IF IsNull(row.embedding) THEN Null ELSE Some(row.embedding[1]),
     CreatedAt |-> row.created_at, ValidAt |-> row.valid_at,
     ExpiredAt |-> row.expired_at,
     Metadata |-> IF IsNull(row.metadata) THEN EmptyString
                  ELSE DecodeMetadata(row.metadata[1])]

(***************************************************************************)
(* GetEpisode                                                              *)
(***************************************************************************)
GetNeverFound(id) == FALSE
\* The SELECT ... WHERE id = ? has a row (no sql.ErrNoRows).
GetFound(id) == id \in Ids(store)

GetEpisode(id, engineUp) ==
    /\ res' = IF ~engineUp
              THEN [op |-> "get", id |-> id, err |-> "failed to get episode"]
              ELSE IF ~GetFound(id)
              THEN [op |-> "get", id |-> id, err |-> "episode not found"]
              ELSE [op |-> "get", id |-> id, err |-> "",
                    ep |-> scanEpisode(RowOf(store, id))]
    /\ UNCHANGED <<store, now, uuidCount, assigned, schema, proc, calls>>

(***************************************************************************)
(* UpdateEpisode                                                           *)
(***************************************************************************)
\* UPDATE episodes SET <the supplied columns> WHERE id = ?
UpdateClearsEmbedding(row, p) ==
    [row EXCEPT !.embedding = Null,
                !.tags = IF IsNull(p.Tags) THEN @ ELSE Some(p.Tags[1])]
UpdateMovesRow(row, p) == [row EXCEPT !.id = "moved"]
FullReplace(row, p) ==
    [row EXCEPT !.tags = IF IsNull(p.Tags) THEN Null ELSE Some(p.Tags[1]),
                !.expired_at = p.ExpiredAt,
                !.metadata = p.Metadata]
UpdateFillsEmbedding(row, p) ==
    [row EXCEPT !.tags = IF IsNull(p.Tags) THEN @ ELSE Some(p.Tags[1]),
                !.expired_at = IF IsNull(p.ExpiredAt) THEN @ ELSE p.ExpiredAt,
                !.metadata = IF IsNull(p.Metadata) THEN @ ELSE p.Metadata,
                !.embedding = Some(Vec(EmbeddingDim, 10, 0))]
ApplyFirstField(row, p) ==
    [row EXCEPT !.tags = IF IsNull(p.Tags) THEN @ ELSE Some(p.Tags[1]),
                !.expired_at = IF IsNull(p.Tags) /\ ~IsNull(p.ExpiredAt)
                               THEN p.ExpiredAt ELSE @]
ApplyUpdate(row, p) ==
    [row EXCEPT !.tags = IF IsNull(p.Tags) THEN @ ELSE Some(p.Tags[1]),
                !.expired_at = IF IsNull(p.ExpiredAt) THEN @ ELSE p.ExpiredAt,
                !.metadata = IF IsNull(p.Metadata) THEN @ ELSE p.Metadata]

UpdatesNeverEmpty(p) == FALSE
\* len(updates) == 0: no field of the UpdateParams is set.
NoUpdates(p) == IsNull(p.Tags) /\ IsNull(p.ExpiredAt) /\ IsNull(p.Metadata)

\* What one UpdateEpisode call does: its error and the table afterwards.
UpdateOutcome(id, p, engineUp) ==
    LET hit == {r \in store : r.id = id}
        err == IF NoUpdates(p) THEN "no updates provided"
               ELSE IF ~engineUp THEN "failed to update episode"
               ELSE IF hit = {} THEN "episode not found"
               ELSE ""
    IN [err |-> err,
        store |-> IF err = ""
                  THEN {IF r \in hit THEN ApplyUpdate(r, p) ELSE r : r \in store}
                  ELSE store]

UpdateEpisode(id, p, engineUp) ==
    LET out == UpdateOutcome(id, p, engineUp)
    IN /\ store' = out.store
       /\ res' = [op |-> "update", id |-> id, params |-> p, err |-> out.err]
       /\ UNCHANGED <<now, uuidCount, assigned, schema, proc, calls>>

(***************************************************************************)
(* DeleteEpisode                                                           *)
(***************************************************************************)
DeleteAll(id) == {}
DeleteNone(id) == store
\* DELETE FROM episodes WHERE id = ?: the rows that stay.
DeleteKeeps(id) == {r \in store : r.id # id}

DeleteEpisode(id, engineUp) ==
    LET hit == {r \in store : r.id = id}
        err == IF ~engineUp THEN "failed to delete episode"
               ELSE IF hit = {} THEN "episode not found"
               ELSE ""
    IN /\ store' = IF engineUp THEN DeleteKeeps(id) ELSE store
       /\ res' = [op |-> "delete", id |-> id, err |-> err]
       /\ UNCHANGED <<now, uuidCount, assigned, schema, proc, calls>>

(***************************************************************************)
(* Search                                                                  *)
(***************************************************************************)
\* list_contains(tags, x): NULL, so not true, on a NULL list.
ListContains(tags, x) == ~IsNull(tags) /\ x \in SeqToSet(tags[1])

AnyTag(row, p) ==
    Len(p.Tags) > 0 => \E i \in 1..Len(p.Tags) : ListContains(row.tags, p.Tags[i])
\* One list_contains condition per requested tag, joined by AND.
TagsFilter(row, p) ==
    \A i \in 1..Len(p.Tags) : ListContains(row.tags, p.Tags[i])

ExpiredFilterNotBefore(row, p, t) ==
    p.IncludeExpired \/ IsNull(row.expired_at) \/ row.expired_at[1] >= t
\* (expired_at IS NULL OR expired_at > CURRENT_TIMESTAMP) unless IncludeExpired.
ExpiredFilter(row, p, t) ==
    p.IncludeExpired \/ IsNull(row.expired_at) \/ row.expired_at[1] > t

MatchesAnySource(row, p, t) ==
    /\ p.Query # "" => ~IsNull(row.embedding)
    /\ p.GroupID # "" => row.group_id = p.GroupID
    /\ ~IsNull(p.Before) => row.created_at < p.Before[1]
    /\ ~IsNull(p.After) => row.created_at > p.After[1]
    /\ ExpiredFilter(row, p, t)
    /\ TagsFilter(row, p)
MatchesUnembedded(row, p, t) ==
    /\ p.GroupID # "" => row.group_id = p.GroupID
    /\ ~IsNull(p.Before) => row.created_at < p.Before[1]
    /\ ~IsNull(p.After) => row.created_at > p.After[1]
    /\ ExpiredFilter(row, p, t)
    /\ p.Source # "" => row.source = p.Source
    /\ TagsFilter(row, p)
\* The WHERE clause Search builds.
Matches(row, p, t) ==
    /\ p.Query # "" => ~IsNull(row.embedding)
    /\ p.GroupID # "" => row.group_id = p.GroupID
    /\ ~IsNull(p.Before) => row.created_at < p.Before[1]
    /\ ~IsNull(p.After) => row.created_at > p.After[1]
    /\ ExpiredFilter(row, p, t)
    /\ p.Source # "" => row.source = p.Source
    /\ TagsFilter(row, p)

\* array_cosine_similarity(a, q) >= array_cosine_similarity(b, q), for
\* vectors that are not zero: dot(a,q)/|a| against dot(b,q)/|b|, compared
\* by sign and then by squares.
Dot(a, b) == a.lead[1] * b.lead[1] + a.lead[2] * b.lead[2]
SimGE(a, b, q) ==
    LET da == Dot(a, q)
        db == Dot(b, q)
        la == da * da * Dot(b, b)
        lb == db * db * Dot(a, a)
    IN IF da >= 0 /\ db >= 0 THEN la >= lb
       ELSE IF da >= 0 THEN TRUE
       ELSE IF db >= 0 THEN FALSE
       ELSE la <= lb

\* json.Marshal of a []float32 fails on a value that is NaN or infinite.
Encodable(o) == "nan" \notin DOMAIN o[1]

OrderAlwaysTemporal(p) == FALSE
\* The ORDER BY is by similarity when a query vector is given and encodes.
SemanticOrder(p) == VecLen(p.QueryEmbedding) > 0 /\ Encodable(p.QueryEmbedding)

OldestFirst(a, b, p) == a.created_at <= b.created_at
\* ORDER BY ... DESC lets a come before b; a NULL key sorts last.
MayPrecede(a, b, p) ==
    IF SemanticOrder(p)
    THEN \/ IsNull(b.embedding)
         \/ ~IsNull(a.embedding) /\ SimGE(a.embedding[1], b.embedding[1], p.QueryEmbedding[1])
    ELSE a.created_at >= b.created_at

\* LIMIT MaxResults, LIMIT 10 when it is not positive.
Unlimited(p) == IF p.MaxResults > 0 THEN p.MaxResults ELSE 1000000
Limit(p) == IF p.MaxResults > 0 THEN p.MaxResults ELSE DefaultMaxResults

Min(a, b) == IF a < b THEN a ELSE b

\* The first k of the rows M in every order the ORDER BY allows: a row that
\* may precede all the others, then the rest likewise.
RECURSIVE TopRows(_, _, _)
TopRows(M, k, p) ==
    IF k = 0 \/ M = {} THEN {<<>>}
    ELSE UNION {{<<a>> \o s : s \in TopRows(M \ {a}, k - 1, p)} :
                  a \in {a \in M : \A b \in M : MayPrecede(a, b, p)}}

\* The row sequences the query may return: the first Limit rows of the
\* matching rows in an order the ORDER BY allows.
QueryResults(p, t) == TopRows({r \in store : Matches(r, p, t)}, Limit(p), p)

\* The query fails in the engine when the query vector does not cast to
\* FLOAT[768].
SearchFails(p, engineUp) ==
    \/ ~engineUp
    \/ SemanticOrder(p) /\ VecLen(p.QueryEmbedding) # EmbeddingDim

Search(p, engineUp) ==
    /\ IF SearchFails(p, engineUp)
       THEN res' = [op |-> "search", params |-> p, at |-> now,
                    err |-> "failed to execute search query", eps |-> <<>>]
       ELSE \E s \in QueryResults(p, now) :
               res' = [op |-> "search", params |-> p, at |-> now, err |-> "",
                       eps |-> [i \in 1..Len(s) |-> scanEpisode(s[i])]]
    /\ UNCHANGED <<store, now, uuidCount, assigned, schema, proc, calls>>

\* Time passes.
Tick ==
    /\ now < MaxTime
    /\ now' = now + 1
    /\ UNCHANGED <<store, uuidCount, assigned, res, schema, proc, calls>>

(***************************************************************************)
(* add_memory: HTTP POST /api/v1/memory and the MCP tool                   *)
(***************************************************************************)
\* The text of instant t in RFC 3339, and time.Parse(time.RFC3339, s): the
\* instant, or absent when s does not parse.
RFC3339(t) == "T" \o ToString(t)
ParseTime(s) ==
    IF \E t \in 1..MaxTime : s = RFC3339(t)
    THEN Some(CHOOSE t \in 1..MaxTime : s = RFC3339(t))
    ELSE Null

EmbedZeroOnError(o) == IF o.kind # "vector" THEN Some(Vec(EmbeddingDim, 0, 0)) ELSE o.vec
\* embedder.Generate under the 5 second context: the vector of the
\* response, or nil and an error (the service is down, answers with an
\* error, or the context expires first).
EmbedError(o) == o.kind # "vector"
EmbedResult(o) == IF EmbedError(o) THEN Null ELSE o.vec

\* The episode both handlers build from a request.
RequestEpisode(req, validAt, emb) ==
    [ID |-> "", Content |-> req.Content, Name |-> req.Name,
     Source |-> req.Source, SourceModel |-> req.SourceModel,
     SourceDescription |-> req.SourceDescription, GroupID |-> req.GroupID,
     Tags |-> req.Tags, Embedding |-> emb, CreatedAt |-> ZeroTime,
     ValidAt |-> validAt, ExpiredAt |-> Null, Metadata |-> req.Metadata]

\* The HTTP handler's checks before the embedding call: the status and
\* message it answers with, 0 when the request passes.
HttpAddValidation(req) ==
    IF req.Content = "" THEN [status |-> 400, message |-> "content is required"]
    ELSE IF req.Source = "" THEN [status |-> 400, message |-> "source is required"]
    ELSE IF req.ValidAt # "" /\ IsNull(ParseTime(req.ValidAt))
    THEN [status |-> 400, message |-> "invalid valid_at format, use ISO 8601"]
    ELSE [status |-> 0, message |-> ""]

HttpAddMemory(req, o, engineUp) ==
    LET check == HttpAddValidation(req)
        req1 == [req EXCEPT !.GroupID = IF @ = "" THEN "default" ELSE @]
        validAt == IF req.ValidAt # "" THEN ParseTime(req.ValidAt) ELSE Null
        ep == RequestEpisode(req1, validAt, EmbedResult(o))
        out == InsertOutcome(ep, engineUp)
    IN IF check.status # 0
       THEN /\ res' = [op |-> "http_add_memory", req |-> req, embed |-> Null,
                       inserted |-> FALSE, engineUp |-> engineUp,
                       status |-> check.status, message |-> check.message]
            /\ UNCHANGED <<store, now, uuidCount, assigned, schema, proc, calls>>
       ELSE /\ InsertEffect(ep, out)
            /\ res' = IF out.ok
                      THEN [op |-> "http_add_memory", req |-> req, embed |-> Some(o),
                            inserted |-> TRUE, engineUp |-> engineUp,
                            status |-> 200, message |-> "", ep |-> out.ep,
                            embedded |-> VecLen(ep.Embedding) > 0]
                      ELSE [op |-> "http_add_memory", req |-> req, embed |-> Some(o),
                            inserted |-> TRUE, engineUp |-> engineUp,
                            status |-> 500, message |-> "Failed to store episode"]

McpAddMemory(req, o, engineUp) ==
    LET validAt == IF req.ValidAt # "" THEN ParseTime(req.ValidAt) ELSE Null
        ep == RequestEpisode(req, validAt, EmbedResult(o))
        out == InsertOutcome(ep, engineUp)
    IN /\ InsertEffect(ep, out)
       /\ res' = IF out.ok
                 THEN [op |-> "mcp_add_memory", req |-> req, embed |-> Some(o),
                       inserted |-> TRUE, engineUp |-> engineUp,
                       status |-> 200, message |-> "Episode stored successfully",
                       ep |-> out.ep]
                 ELSE [op |-> "mcp_add_memory", req |-> req, embed |-> Some(o),
                       inserted |-> TRUE, engineUp |-> engineUp,
                       status |-> 500, message |-> "failed to store episode"]

(***************************************************************************)
(* search: HTTP GET /api/v1/memory/search and the MCP tool                 *)
(***************************************************************************)
\* The SearchParams both handlers pass to Store.Search.
RequestSearch(req, before, after, emb) ==
    [Query |-> req.Query, QueryEmbedding |-> emb, GroupID |-> req.GroupID,
     MaxResults |-> req.MaxResults, Before |-> before, After |-> after,
     Tags |-> req.Tags, Source |-> req.Source,
     IncludeExpired |-> req.IncludeExpired]

\* A time filter as the MCP handlers read it: absent when the text is
\* empty or does not parse.
LenientTime(s) == IF s # "" THEN ParseTime(s) ELSE Null

\* The HTTP handler's answer to a time filter that does not parse, status 0
\* when both parse or are empty.
HttpTimeFilters(req) ==
    IF req.Before # "" /\ IsNull(ParseTime(req.Before))
    THEN [status |-> 400, message |-> "invalid before format, use ISO 8601"]
    ELSE IF req.After # "" /\ IsNull(ParseTime(req.After))
    THEN [status |-> 400, message |-> "invalid after format, use ISO 8601"]
    ELSE [status |-> 0, message |-> ""]

\* Store.Search as a handler calls it: failure or one of the results.
Searched(op, req, embed, p, engineUp, failure) ==
    /\ IF SearchFails(p, engineUp)
       THEN res' = [op |-> op, req |-> req, embed |-> embed, searched |-> TRUE,
                    engineUp |-> engineUp,
                    params |-> p, at |-> now, status |-> 500,
                    message |-> failure, eps |-> <<>>]
       ELSE \E s \in QueryResults(p, now) :
               res' = [op |-> op, req |-> req, embed |-> embed, searched |-> TRUE,
                       engineUp |-> engineUp,
                       params |-> p, at |-> now, status |-> 200, message |-> "",
                       eps |-> [i \in 1..Len(s) |-> scanEpisode(s[i])]]
    /\ UNCHANGED <<store, now, uuidCount, assigned, schema, proc, calls>>

HttpSearch(req, o, engineUp) ==
    LET req1 == [req EXCEPT !.GroupID = IF @ = "" THEN "default" ELSE @,
                            !.MaxResults = IF @ = 0 THEN 10 ELSE @]
        embed == IF req.Query # "" THEN Some(o) ELSE Null
        queryEmbedding == IF req.Query # "" THEN EmbedResult(o) ELSE Null
        check == HttpTimeFilters(req)
        p == RequestSearch(req1, LenientTime(req.Before), LenientTime(req.After),
                           queryEmbedding)
    IN IF check.status # 0
       THEN /\ res' = [op |-> "http_search", req |-> req, embed |-> embed,
                       searched |-> FALSE, engineUp |-> engineUp,
                       status |-> check.status,
                       message |-> check.message]
            /\ UNCHANGED <<store, now, uuidCount, assigned, schema, proc, calls>>
       ELSE Searched("http_search", req, embed, p, engineUp, "Search failed")

McpSearch(req, o, engineUp) ==
    LET embed == IF req.Query # "" THEN Some(o) ELSE Null
        queryEmbedding == IF req.Query # "" THEN EmbedResult(o) ELSE Null
        p == RequestSearch(req, LenientTime(req.Before), LenientTime(req.After),
                           queryEmbedding)
    IN Searched("mcp_search", req, embed, p, engineUp, "search failed")

(***************************************************************************)
(* get_episodes, update_episode and get_status on both adapters            *)
(***************************************************************************)
\* get_episodes is a Search by group and creation time only.
EpisodesSearch(req, before, after) ==
    [Query |-> "", QueryEmbedding |-> Null, GroupID |-> req.GroupID,
     MaxResults |-> req.MaxResults, Before |-> before, After |-> after,
     Tags |-> <<>>, Source |-> "", IncludeExpired |-> FALSE]

HttpGetEpisodes(req, engineUp) ==
    LET req1 == [req EXCEPT !.GroupID = IF @ = "" THEN "default" ELSE @,
                            !.MaxResults = IF @ = 0 THEN 10 ELSE @]
        check == HttpTimeFilters(req)
        p == EpisodesSearch(req1, LenientTime(req.Before), LenientTime(req.After))
    IN IF check.status # 0
       THEN /\ res' = [op |-> "http_get_episodes", req |-> req, embed |-> Null,
                       searched |-> FALSE, engineUp |-> engineUp,
                       status |-> check.status, message |-> check.message]
            /\ UNCHANGED <<store, now, uuidCount, assigned, schema, proc, calls>>
       ELSE Searched("http_get_episodes", req, Null, p, engineUp,
                     "Failed to get episodes")

McpGetEpisodes(req, engineUp) ==
    Searched("mcp_get_episodes", req, Null,
             EpisodesSearch(req, LenientTime(req.Before), LenientTime(req.After)),
             engineUp, "failed to get episodes")

\* Store.UpdateEpisode as a handler calls it.
Updated(op, id, req, p, engineUp, failure) ==
    LET out == UpdateOutcome(id, p, engineUp)
    IN /\ store' = out.store
       /\ res' = [op |-> op, id |-> id, req |-> req, params |-> p,
                  engineUp |-> engineUp, updated |-> TRUE,
                  status |-> IF out.err = "" THEN 200 ELSE 500,
                  message |-> IF out.err = "" THEN "Episode updated successfully"
                              ELSE failure,
                  err |-> out.err]
       /\ UNCHANGED <<now, uuidCount, assigned, schema, proc, calls>>

\* PUT /api/v1/memory/episodes/{id}: tags, expires_at and metadata are
\* pointers, set when the body has the field.
HttpUpdateEpisode(id, req, engineUp) ==
    LET hasExpiry == ~IsNull(req.ExpiresAt) /\ req.ExpiresAt[1] # ""
        expiresAt == IF hasExpiry THEN ParseTime(req.ExpiresAt[1]) ELSE Null
        p == [Tags |-> req.Tags, ExpiredAt |-> expiresAt, Metadata |-> req.Metadata]
    IN IF id = "" \/ (hasExpiry /\ IsNull(expiresAt))
       THEN /\ res' = [op |-> "http_update_episode", id |-> id, req |-> req,
                       engineUp |-> engineUp, updated |-> FALSE, status |-> 400,
                       message |-> IF id = "" THEN "episode id is required"
                                   ELSE "invalid expires_at format, use ISO 8601"]
            /\ UNCHANGED <<store, now, uuidCount, assigned, schema, proc, calls>>
       ELSE Updated("http_update_episode", id, req, p, engineUp,
                    "Failed to update episode")

\* The update_episode tool: a field is set when its argument is not empty
\* (and, for expired_at, parses).
McpUpdateEpisode(req, engineUp) ==
    LET p == [Tags |-> IF Len(req.Tags) > 0 THEN Some(req.Tags) ELSE Null,
              ExpiredAt |-> LenientTime(req.ExpiredAt),
              Metadata |-> IF req.Metadata # EmptyString THEN Some(req.Metadata)
                           ELSE Null]
    IN Updated("mcp_update_episode", req.ID, req, p, engineUp,
               "failed to update episode")

\* GET /api/v1/status counts the episodes of group "default" by a Search.
HttpGetStatus(engineUp) ==
    LET p == [Query |-> "", QueryEmbedding |-> Null, GroupID |-> "default",
              MaxResults |-> 1000000, Before |-> Null, After |-> Null,
              Tags |-> <<>>, Source |-> "", IncludeExpired |-> FALSE]
    IN /\ IF SearchFails(p, engineUp)
          THEN res' = [op |-> "http_get_status", status |-> 200,
                       episode_count |-> 0, database_ready |-> FALSE]
          ELSE \E s \in QueryResults(p, now) :
                  res' = [op |-> "http_get_status", status |-> 200,
                          episode_count |-> Len(s), database_ready |-> TRUE]
       /\ UNCHANGED <<store, now, uuidCount, assigned, schema, proc, calls>>

McpGetStatus ==
    /\ res' = [op |-> "mcp_get_status", status |-> 200, message |-> "healthy"]
    /\ UNCHANGED <<store, now, uuidCount, assigned, schema, proc, calls>>

\* The routes of the HTTP API and the tools of the MCP server.
HttpRoutes ==
    {<<"POST", "/api/v1/memory">>, <<"GET", "/api/v1/memory/search">>,
     <<"GET", "/api/v1/memory/episodes">>, <<"PUT", "/api/v1/memory/episodes/{id}">>,
     <<"GET", "/api/v1/status">>}
McpTools == {"add_memory", "search", "get_episodes", "update_episode", "get_status"}

\* A request the router has no handler for: 405 when the path is routed
\* for another method, 404 otherwise.
HttpNoRoute(method, path) ==
    /\ <<method, path>> \notin HttpRoutes
    /\ res' = [op |-> "http_no_route", method |-> method, path |-> path,
               status |-> IF \E r \in HttpRoutes : r[2] = path THEN 405 ELSE 404]
    /\ UNCHANGED <<store, now, uuidCount, assigned, schema, proc, calls>>

\* A call of a tool that is not registered.
McpNoTool(name) ==
    /\ name \notin McpTools
    /\ res' = [op |-> "mcp_no_tool", name |-> name, status |-> 500,
               message |-> "tool not found"]
    /\ UNCHANGED <<store, now, uuidCount, assigned, schema, proc, calls>>

(***************************************************************************)
(* NewStore: the schema of the database file                               *)
(***************************************************************************)
\* The file's schema: the data type information_schema reports for
\* episodes.created_at ("absent" when there is no episodes table), the
\* indexes on the table in the order they were created, and the rows of
\* table episodes_new when the file has one.
TableIndexes ==
    <<"idx_episodes_created_at", "idx_episodes_group_id",
      "idx_episodes_valid_at", "idx_episodes_source">>
NoSchema == [created_at |-> "absent", indexes |-> <<>>, shadow |-> Null]
LegacySchema == [created_at |-> "TIMESTAMP", indexes |-> TableIndexes, shadow |-> Null]

\* CREATE TABLE IF NOT EXISTS episodes (... created_at TIMESTAMPTZ ...).
CreateTableIfNotExists(s) ==
    IF s.created_at = "absent"
    THEN [s EXCEPT !.created_at = "TIMESTAMP WITH TIME ZONE"]
    ELSE s
\* CREATE INDEX IF NOT EXISTS name ON episodes (...).
CreateIndexIfNotExists(s, name) ==
    IF name \in SeqToSet(s.indexes) THEN s
    ELSE [s EXCEPT !.indexes = Append(@, name)]
RECURSIVE CreateIndexes(_, _)
CreateIndexes(s, names) ==
    IF names = <<>> THEN s
    ELSE CreateIndexes(CreateIndexIfNotExists(s, Head(names)), Tail(names))

AlwaysMigrate(s) == TRUE
\* migrate rebuilds the table when created_at is still a TIMESTAMP.
NeedsMigration(s) == s.created_at = "TIMESTAMP"

\* What the engine fails during one start: nothing, one of the eight
\* statements of the migration, or the query of information_schema.
NoFault == 0
MigrationSteps == 8
QueryFault == 9
Faults == 0..QueryFault

\* INSERT INTO episodes_new SELECT ...: every column as it is, the three
\* timestamps cast to TIMESTAMPTZ (the same microsecond count, now an
\* instant).
CopyNoRow(rows) == {}
CastTimestampTZ(t) == t
CopyRows(rows) ==
    {[id |-> r.id, content |-> r.content, name |-> r.name,
      source |-> r.source, source_model |-> r.source_model,
      source_description |-> r.source_description, group_id |-> r.group_id,
      tags |-> r.tags, embedding |-> r.embedding,
      created_at |-> CastTimestampTZ(r.created_at),
      valid_at |-> IF IsNull(r.valid_at) THEN Null
                   ELSE Some(CastTimestampTZ(r.valid_at[1])),
      expired_at |-> IF IsNull(r.expired_at) THEN Null
                     ELSE Some(CastTimestampTZ(r.expired_at[1])),
      metadata |-> r.metadata] : r \in rows}

\* The file after statement k of the migration: st.schema is the schema and
\* st.rows the rows of table episodes.
MigrationStep(k, st) ==
    CASE k = 1 -> [st EXCEPT !.schema.shadow = Some({})]
      [] k = 2 -> [st EXCEPT !.schema.shadow = Some(CopyRows(st.rows))]
      [] k = 3 -> [st EXCEPT !.schema.created_at = "absent",
                             !.schema.indexes = <<>>,
                             !.rows = {}]
      [] k = 4 -> [st EXCEPT !.schema.created_at = "TIMESTAMP WITH TIME ZONE",
                             !.schema.shadow = Null,
                             !.rows = st.schema.shadow[1]]
      [] OTHER -> [st EXCEPT !.schema.indexes = Append(@, TableIndexes[k - 4])]

\* Statement k returns an error: the engine fails it, or CREATE TABLE finds
\* episodes_new in the file, or CREATE INDEX finds the index.
StepFails(k, st, fault) ==
    \/ k = fault
    \/ k = 1 /\ ~IsNull(st.schema.shadow)
    \/ k > 4 /\ TableIndexes[k - 4] \in SeqToSet(st.schema.indexes)

\* The loop over the statements, each one committed by its own Exec: the
\* first error ends it and keeps what the earlier statements did.
RECURSIVE RunMigrations(_, _, _)
RunMigrations(st, k, fault) ==
    IF k > MigrationSteps THEN [schema |-> st.schema, rows |-> st.rows, err |-> ""]
    ELSE IF StepFails(k, st, fault)
    THEN [schema |-> st.schema, rows |-> st.rows, err |-> "migration failed"]
    ELSE RunMigrations(MigrationStep(k, st), k + 1, fault)

\* migrate: nothing when the query of the column type fails or the type is
\* current, the eight statements otherwise.
Migrate(s, rows, fault) ==
    IF fault # QueryFault /\ NeedsMigration(s)
    THEN RunMigrations([schema |-> s, rows |-> rows], 1, fault)
    ELSE [schema |-> s, rows |-> rows, err |-> ""]

\* initialize: the schema script, the migration when it is due, and the
\* HNSW index when the engine accepts to build one (its error is dropped).
initialize(s, rows, hnswOk, fault) ==
    LET s1 == CreateIndexes(CreateTableIfNotExists(s), TableIndexes)
        due == fault # QueryFault /\ NeedsMigration(s1)
        m == Migrate(s1, rows, fault)
        s3 == IF m.err = "" /\ hnswOk
              THEN CreateIndexIfNotExists(m.schema, "idx_episodes_embedding")
              ELSE m.schema
    IN [schema |-> s3, rows |-> m.rows, migrated |-> due,
        err |-> IF m.err = "" THEN "" ELSE "failed to run migrations"]

\* The process in main: pc is where it is, handle the state of the sql.DB
\* NewStore opened, closes how often that handle has been closed, mode the
\* -mode flag once main has looked at it.
Serving == [pc |-> "serving", handle |-> "open", closes |-> 0, mode |-> "http"]

\* The callers that run store calls side by side, none of them in a call.
Callers == {"a", "b"}
NoCalls == [c \in Callers |-> [pc |-> "idle"]]

\* NewStore in a process that starts on the file: the handle is opened, and
\* closed again when initialize fails; the Store is returned otherwise.
NewStore(hnswOk, fault) ==
    LET r == initialize(schema, store, hnswOk, fault)
    IN /\ schema' = r.schema
       /\ store' = r.rows
       /\ res' = [op |-> "NewStore", migrated |-> r.migrated, fault |-> fault,
                  hnswOk |-> hnswOk,
                  err |-> IF r.err = "" THEN "" ELSE "failed to initialize database"]
       /\ proc' = IF r.err = ""
                  THEN [pc |-> "opened", handle |-> "open", closes |-> 0, mode |-> ""]
                  ELSE [pc |-> "exited", handle |-> "closed", closes |-> 1, mode |-> ""]
       /\ UNCHANGED <<now, uuidCount, assigned, calls>>

(***************************************************************************)
(* main: the process around the store                                      *)
(***************************************************************************)
\* A process that has not called NewStore yet.
Started == [pc |-> "start", handle |-> "none", closes |-> 0, mode |-> ""]

\* Store.Close: the sql.DB is closed.
Close(p) == [p EXCEPT !.handle = "closed", !.closes = @ + 1]

\* log.Fatalf: os.Exit(1), which runs no deferred call.
Fatalf(p) == [p EXCEPT !.pc = "exited"]
\* main returns: the deferred store.Close() runs.
Return(p) == [Close(p) EXCEPT !.pc = "exited"]

\* main after NewStore returned an error: log.Fatalf.  (NewStore has closed
\* the handle and left pc at "exited".)  After it returned a Store, the
\* switch on -mode: a server is built and serves, or log.Fatalf.
MainMode(mode) ==
    /\ proc.pc = "opened"
    /\ proc' = IF mode \in {"stdio", "http"}
               THEN [proc EXCEPT !.pc = "serving", !.mode = mode]
               ELSE Fatalf([proc EXCEPT !.mode = mode])
    /\ res' = [op |-> "mode", mode |-> mode]
    /\ UNCHANGED <<store, now, uuidCount, assigned, schema, calls>>

\* Serve returns: server.ServeStdio with or without an error,
\* http.ListenAndServe always with one.  An error is log.Fatalf; without
\* one main returns.
ServeReturns(failed) ==
    /\ proc.pc = "serving"
    /\ proc.mode = "http" => failed
    /\ proc' = IF failed THEN Fatalf(proc) ELSE Return(proc)
    /\ res' = [op |-> "serve", failed |-> failed]
    /\ UNCHANGED <<store, now, uuidCount, assigned, schema, calls>>

(***************************************************************************)
(* Calls that run side by side on the one Store                            *)
(***************************************************************************)
\* Every call runs its one statement on a connection of the shared sql.DB,
\* in a transaction of its own.  A SELECT reads the committed table at one
\* instant (GetEpisode and Search above).  A write statement starts, seeing
\* the committed rows of its id, and ends by committing; the engine fails
\* it when another statement has committed a change of those rows since it
\* started ("Conflict on update", "Conflict on tuple deletion", or the
\* PRIMARY KEY).  A call's record keeps the callers whose statement was in
\* flight when its own started, for as long as their record is of that
\* statement.
StatementBegins(c, call) ==
    /\ calls[c].pc # "running"
    /\ calls' = [d \in Callers |->
                    IF d = c
                    THEN [pc |-> "running", call |-> call,
                          seen |-> {r \in store : r.id = call.id},
                          with |-> {e \in Callers : calls[e].pc = "running"}]
                    ELSE IF calls[d].pc = "done"
                    THEN [calls[d] EXCEPT !.with = @ \ {c}]
                    ELSE calls[d]]
    /\ UNCHANGED <<store, now, uuidCount, assigned, res, schema, proc>>

Conflict(c) == {r \in store : r.id = calls[c].call.id} # calls[c].seen

\* The error and the table after the call's statement has ended: what
\* InsertEpisode, UpdateEpisode and DeleteEpisode make of the engine's
\* answer.
StatementOutcome(c) ==
    LET k == calls[c].call
        up == ~Conflict(c)
    IN CASE k.op = "insert" ->
              LET out == InsertOutcome(k.ep, up)
              IN [err |-> out.err,
                  store |-> IF out.ok THEN store \cup {out.row} ELSE store,
                  res |-> [op |-> "insert", arg |-> k.ep, ep |-> out.ep,
                           err |-> out.err]]
         [] k.op = "update" ->
              LET out == UpdateOutcome(k.id, k.p, up)
              IN [err |-> out.err, store |-> out.store,
                  res |-> [op |-> "update", id |-> k.id, params |-> k.p,
                           err |-> out.err]]
         [] OTHER ->
              LET err == IF ~up THEN "failed to delete episode"
                         ELSE IF k.id \notin Ids(store) THEN "episode not found"
                         ELSE ""
              IN [err |-> err,
                  store |-> IF up THEN DeleteKeeps(k.id) ELSE store,
                  res |-> [op |-> "delete", id |-> k.id, err |-> err]]

StatementEnds(c) ==
    /\ calls[c].pc = "running"
    /\ LET out == StatementOutcome(c)
       IN /\ store' = out.store
          /\ res' = out.res
          /\ assigned' = assigned \cup
                {[id |-> r.id, content |-> r.content] : r \in out.store \ store}
          /\ calls' = [calls EXCEPT ![c] =
                          [pc |-> "done", call |-> calls[c].call,
                           seen |-> calls[c].seen, with |-> calls[c].with,
                           err |-> out.err]]
    /\ UNCHANGED <<now, uuidCount, schema, proc>>


(***************************************************************************)
(* The store after NewStore on a fresh file, and the calls made on it      *)
(***************************************************************************)
Init ==
    /\ store = {}
    /\ now = 1
    /\ uuidCount = 0
    /\ assigned = {}
    /\ res = [op |-> "none"]
    /\ schema = initialize(NoSchema, {}, FALSE, NoFault).schema
    /\ proc = Serving
    /\ calls = NoCalls

V1 == Vec(EmbeddingDim, 10, 0)
V2 == Vec(EmbeddingDim, 0, 10)

PlainEpisode ==
    [ID |-> "", Content |-> "note", Name |-> "", Source |-> "cli",
     SourceModel |-> "", SourceDescription |-> "", GroupID |-> "",
     Tags |-> Null, Embedding |-> Null, CreatedAt |-> ZeroTime,
     ValidAt |-> Null, ExpiredAt |-> Null, Metadata |-> EmptyString]
RichEpisode ==
    [ID |-> "", Content |-> "fact", Name |-> "title", Source |-> "web",
     SourceModel |-> "model", SourceDescription |-> "about", GroupID |-> "team",
     Tags |-> Some(<<"x", "y">>), Embedding |-> Some(V1), CreatedAt |-> ZeroTime,
     ValidAt |-> Some(1), ExpiredAt |-> Null, Metadata |-> JsonObject(<<2, 1>>)]

CallerIds == {"a"}
UUIDs == {"uuid-" \o ToString(n) : n \in 1..MaxUUIDs}
\* The ids calls are made with: the stored ones and one that never is.
AskedIds == CallerIds \cup UUIDs \cup {"missing"}

UpdateParams(T, E, M) == [Tags : T, ExpiredAt : E, Metadata : M]
NoSearchParams ==
    [Query |-> "", QueryEmbedding |-> Null, GroupID |-> "", MaxResults |-> 0,
     Before |-> Null, After |-> Null, Tags |-> <<>>, Source |-> "",
     IncludeExpired |-> FALSE]

\* Calls on the store API with server-generated and caller-supplied ids.
StoreEpisodes == {[e EXCEPT !.ID = i] : e \in {PlainEpisode, RichEpisode}, i \in {""} \cup CallerIds}
StoreUpdates == UpdateParams({Null, Some(<<"y">>)}, {Null}, {Null})
StoreSearches == {[NoSearchParams EXCEPT !.GroupID = g] : g \in {"", "team"}}

NextStore ==
    \/ \E ep \in StoreEpisodes : InsertEpisode(ep, TRUE)
    \/ \E id \in AskedIds : GetEpisode(id, TRUE)
    \/ \E id \in AskedIds, p \in StoreUpdates : UpdateEpisode(id, p, TRUE)
    \/ \E id \in AskedIds : DeleteEpisode(id, TRUE)
    \/ \E p \in StoreSearches : Search(p, TRUE)

Spec == Init /\ [][NextStore]_vars

\* Every combination of supplied and omitted fields of an update.
PatchEpisodes == {PlainEpisode, RichEpisode}
PatchUpdates ==
    UpdateParams({Null, Some(<<"y">>)}, {Null, Some(1)},
                 {Null, Some(JsonObject(<<1>>))})

NextUpdate ==
    \/ \E ep \in PatchEpisodes : InsertEpisode(ep, TRUE)
    \/ \E id \in AskedIds, p \in PatchUpdates : UpdateEpisode(id, p, TRUE)
    \/ \E id \in AskedIds : GetEpisode(id, TRUE)

SpecUpdate == Init /\ [][NextUpdate]_vars

\* Searches by tags and source over episodes with and without tags.
TagEpisodes ==
    {[PlainEpisode EXCEPT !.Tags = t, !.Source = src] :
        t \in {Null, Some(<<"x">>), Some(<<"x", "y">>)}, src \in {"cli", "web"}}
TagSearches ==
    {[NoSearchParams EXCEPT !.Tags = t, !.Source = src, !.MaxResults = m] :
        t \in {<<>>, <<"x">>, <<"y">>, <<"x", "y">>}, src \in {"", "web"},
        m \in {0, 1}}

NextTags ==
    \/ \E ep \in TagEpisodes : InsertEpisode(ep, TRUE)
    \/ \E p \in TagSearches : Search(p, TRUE)

SpecTags == Init /\ [][NextTags]_vars

\* Episodes that are expired by an update, searched as time passes.
ExpiryUpdates == UpdateParams({Null}, {Some(1), Some(2)}, {Null})
ExpirySearches ==
    {[NoSearchParams EXCEPT !.IncludeExpired = x, !.MaxResults = m] :
        x \in BOOLEAN, m \in {0, 1}}

NextExpiry ==
    \/ InsertEpisode(PlainEpisode, TRUE)
    \/ \E id \in UUIDs, p \in ExpiryUpdates : UpdateEpisode(id, p, TRUE)
    \/ \E id \in UUIDs : GetEpisode(id, TRUE)
    \/ \E p \in ExpirySearches : Search(p, TRUE)
    \/ Tick

SpecExpiry == Init /\ [][NextExpiry]_vars

\* add_memory requests on both adapters, with the embedding service up,
\* down, too slow, or serving a model of another dimension, and the engine
\* up or failing.
AddRequests ==
    {[Content |-> c, Name |-> "", Source |-> "cli", SourceModel |-> "",
      SourceDescription |-> "", GroupID |-> "", Tags |-> Null, ValidAt |-> v,
      Metadata |-> EmptyString] :
        c \in {"", "note"}, v \in {"", "yesterday", RFC3339(1)}}
EmbedOutcomes ==
    {[kind |-> "vector", vec |-> Some(V1)],
     [kind |-> "vector", vec |-> Some(Vec(1024, 10, 0))],
     [kind |-> "error", vec |-> Null],
     [kind |-> "timeout", vec |-> Null]}

NextApi ==
    \/ \E req \in AddRequests, o \in EmbedOutcomes, up \in BOOLEAN :
          HttpAddMemory(req, o, up)
    \/ \E req \in AddRequests, o \in EmbedOutcomes, up \in BOOLEAN :
          McpAddMemory(req, o, up)

SpecApi == Init /\ [][NextApi]_vars

\* A store that already holds up to MaxStored episodes, inserted one per
\* instant from the two sources in turn, and searches under every kind of
\* cap.
StoredEpisode(i) ==
    [PlainEpisode EXCEPT !.ID = "uuid-" \o ToString(i), !.CreatedAt = i,
                         !.GroupID = "default",
                         !.Source = IF i % 2 = 0 THEN "web" ELSE "cli"]
InitStored ==
    \E k \in 0..MaxStored :
        /\ store = {InsertRow(StoredEpisode(i)) : i \in 1..k}
        /\ now = k + 1
        /\ uuidCount = k
        /\ assigned = {[id |-> StoredEpisode(i).ID, content |-> StoredEpisode(i).Content] :
                         i \in 1..k}
        /\ res = [op |-> "none"]
        /\ schema = initialize(NoSchema, {}, FALSE, NoFault).schema
        /\ proc = Serving
        /\ calls = NoCalls
CapSearches ==
    {[NoSearchParams EXCEPT !.MaxResults = m, !.Source = src] :
        m \in {-1, 0, 1, 3, MaxStored}, src \in {"", "web"}}

NextCap == \E p \in CapSearches : Search(p, TRUE)

SpecCap == InitStored /\ [][NextCap]_vars

\* Searches by group, source and creation time over episodes of two groups
\* and two sources created at different instants.
FilterEpisodes ==
    {[PlainEpisode EXCEPT !.GroupID = g, !.Source = src] :
        g \in {"", "team"}, src \in {"cli", "web"}}
FilterSearches ==
    {[NoSearchParams EXCEPT !.GroupID = g, !.Source = src, !.Before = b,
                            !.After = a] :
        g \in {"", "team"}, src \in {"", "web"},
        b \in {Null, Some(2), Some(MaxTime + 1)}, a \in {Null, Some(1)}}

NextFilter ==
    \/ \E ep \in FilterEpisodes : InsertEpisode(ep, TRUE)
    \/ \E p \in FilterSearches : Search(p, TRUE)
    \/ Tick

SpecFilter == Init /\ [][NextFilter]_vars

\* Searches with and without a query vector over episodes with different
\* embeddings, or none, created at different instants.
RankEpisodes ==
    {[PlainEpisode EXCEPT !.Embedding = e] : e \in {Null, Some(V1), Some(V2)}}
RankSearches ==
    {[NoSearchParams EXCEPT !.Query = t, !.QueryEmbedding = q, !.MaxResults = m] :
        t \in {"", "words"},
        q \in {Null, Some(Vec(EmbeddingDim, 9, 1)), Some(Vec(EmbeddingDim, 1, 9)),
               Some(NaNVec(EmbeddingDim))},
        m \in {0, 1}}

NextRank ==
    \/ \E ep \in RankEpisodes : InsertEpisode(ep, TRUE)
    \/ \E p \in RankSearches : Search(p, TRUE)
    \/ Tick

SpecRank == Init /\ [][NextRank]_vars

\* Search requests with query text on both adapters, with the embedding
\* service up, down, too slow or serving another dimension, over
\* episodes stored with and without an embedding.
SearchRequests ==
    {[Query |-> t, GroupID |-> "", MaxResults |-> m, Before |-> b, After |-> "",
      Tags |-> <<>>, Source |-> "", IncludeExpired |-> FALSE] :
        t \in {"words"}, m \in {0, 1},
        b \in {"", "yesterday", RFC3339(MaxTime)}}
SearchApiEpisodes == {[PlainEpisode EXCEPT !.Embedding = e] : e \in {Null, Some(V1)}}

NextSearchApi ==
    \/ \E ep \in SearchApiEpisodes : InsertEpisode(ep, TRUE)
    \/ \E req \in SearchRequests, o \in EmbedOutcomes, up \in BOOLEAN :
          HttpSearch(req, o, up)
    \/ \E req \in SearchRequests, o \in EmbedOutcomes, up \in BOOLEAN :
          McpSearch(req, o, up)
    \/ Tick

SpecSearchApi == Init /\ [][NextSearchApi]_vars

\* Every request the two adapters take, and requests they have no route or
\* tool for.
AdapterAdds == {r \in AddRequests : r.Content = "note" /\ r.ValidAt = ""}
AdapterEmbeds == {o \in EmbedOutcomes : o.kind = "error" \/ o.vec = Some(V1)}
AdapterSearches ==
    {[Query |-> t, GroupID |-> "", MaxResults |-> 0, Before |-> "", After |-> "",
      Tags |-> <<>>, Source |-> "", IncludeExpired |-> FALSE] :
        t \in {"", "words"}}
AdapterLists ==
    {[GroupID |-> "", MaxResults |-> 0, Before |-> b, After |-> ""] :
        b \in {"", "yesterday"}}
HttpUpdates ==
    [Tags : {Null, Some(<<>>)}, ExpiresAt : {Null, Some(RFC3339(1)), Some("soon")},
     Metadata : {Null}]
McpUpdates ==
    [ID : UUIDs, Tags : {<<"y">>}, ExpiredAt : {"", RFC3339(1)},
     Metadata : {EmptyString}]
Unrouted ==
    {<<"DELETE", "/api/v1/memory/episodes/{id}">>, <<"DELETE", "/api/v1/memory">>,
     <<"POST", "/api/v1/memory/delete">>}

NextAdapters ==
    \/ \E req \in AdapterAdds : HttpAddMemory(req, [kind |-> "vector", vec |-> Some(V1)], TRUE)
    \/ \E req \in AdapterAdds : McpAddMemory(req, [kind |-> "vector", vec |-> Some(V1)], TRUE)
    \/ \E req \in AdapterSearches, o \in AdapterEmbeds : HttpSearch(req, o, TRUE)
    \/ \E req \in AdapterSearches, o \in AdapterEmbeds : McpSearch(req, o, TRUE)
    \/ \E req \in AdapterLists : HttpGetEpisodes(req, TRUE)
    \/ \E req \in AdapterLists : McpGetEpisodes(req, TRUE)
    \/ \E id \in UUIDs, req \in HttpUpdates : HttpUpdateEpisode(id, req, TRUE)
    \/ \E req \in McpUpdates : McpUpdateEpisode(req, TRUE)
    \/ HttpGetStatus(TRUE)
    \/ McpGetStatus
    \/ \E r \in Unrouted : HttpNoRoute(r[1], r[2])
    \/ McpNoTool("delete_episode")
    \/ \E id \in UUIDs : GetEpisode(id, TRUE)

SpecAdapters == Init /\ [][NextAdapters]_vars

\* Updates of every shape interleaved with gets and searches.
NextImmutable ==
    \/ \E ep \in PatchEpisodes : InsertEpisode(ep, TRUE)
    \/ \E id \in UUIDs, p \in PatchUpdates : UpdateEpisode(id, p, TRUE)
    \/ \E id \in UUIDs : GetEpisode(id, TRUE)
    \/ Search([NoSearchParams EXCEPT !.IncludeExpired = TRUE], TRUE)

SpecImmutable == Init /\ [][NextImmutable]_vars

\* The process is started again and again on a file that was first opened
\* empty or with the legacy TIMESTAMP columns, with episodes stored between
\* the starts.
InitFile ==
    /\ store = {}
    /\ now = 1
    /\ uuidCount = 0
    /\ assigned = {}
    /\ res = [op |-> "none"]
    /\ schema \in {initialize(f, {}, h, NoFault).schema :
                      f \in {NoSchema, LegacySchema}, h \in BOOLEAN}
    /\ proc = Serving
    /\ calls = NoCalls

NextSchema ==
    \/ \E h \in BOOLEAN : NewStore(h, NoFault)
    \/ \E ep \in {PlainEpisode, RichEpisode} : InsertEpisode(ep, TRUE)
    \/ \E id \in UUIDs : GetEpisode(id, TRUE)
    \/ \E id \in UUIDs : UpdateEpisode(id, [Tags |-> Null, ExpiredAt |-> Some(1), Metadata |-> Null], TRUE)

SpecSchema == InitFile /\ [][NextSchema]_vars

\* The process from its start on a file that is new, or that an earlier
\* version has left with the legacy schema and up to MaxEpisodes episodes:
\* NewStore under every fault of the engine, the modes, the calls made
\* while a server runs, and the ways the server ends; a new process may
\* start on the file when the last one is gone.
InitMain ==
    \E k \in 0..MaxEpisodes, f \in {NoSchema, LegacySchema} :
        /\ f = NoSchema => k = 0
        /\ store = {InsertRow(StoredEpisode(i)) : i \in 1..k}
        /\ now = k + 1
        /\ uuidCount = k
        /\ assigned = {[id |-> StoredEpisode(i).ID, content |-> StoredEpisode(i).Content] :
                         i \in 1..k}
        /\ res = [op |-> "none"]
        /\ schema = f
        /\ proc = Started
        /\ calls = NoCalls

NextMain ==
    \/ \E h \in BOOLEAN, f \in Faults :
          proc.pc \in {"start", "exited"} /\ NewStore(h, f)
    \/ \E mode \in {"stdio", "http", "sse"} : MainMode(mode)
    \/ \E failed \in BOOLEAN : ServeReturns(failed)
    \/ \E ep \in {PlainEpisode} : proc.pc = "serving" /\ InsertEpisode(ep, TRUE)
    \/ \E id \in UUIDs : proc.pc = "serving" /\ GetEpisode(id, TRUE)

SpecMain == InitMain /\ [][NextMain]_vars


\* Episodes with no tags, an empty list of tags and two tags, and updates
\* of the tags to nothing, to an empty list and to one tag.
CollectionEpisodes ==
    {PlainEpisode, [PlainEpisode EXCEPT !.Tags = Some(<<>>)], RichEpisode}
CollectionUpdates == UpdateParams({Null, Some(<<>>), Some(<<"y">>)}, {Null, Some(1)}, {Null})

NextCollections ==
    \/ \E ep \in CollectionEpisodes : InsertEpisode(ep, TRUE)
    \/ \E id \in AskedIds, p \in CollectionUpdates : UpdateEpisode(id, p, TRUE)
    \/ \E id \in AskedIds : GetEpisode(id, TRUE)
    \/ \E id \in AskedIds : DeleteEpisode(id, TRUE)

SpecCollections == Init /\ [][NextCollections]_vars


\* Two callers on one id: inserts of two different episodes under it,
\* updates of one and of two fields, deletes, and readers in between.
ConcurrentCalls ==
    {[op |-> "insert", id |-> "a", ep |-> [e EXCEPT !.ID = "a"]] :
        e \in {PlainEpisode, RichEpisode}}
    \cup {[op |-> "update", id |-> "a", p |-> p] :
            p \in UpdateParams({Some(<<"y">>)}, {Null, Some(1)}, {Null})}
    \cup {[op |-> "delete", id |-> "a"]}

NextConcurrent ==
    \/ \E c \in Callers, k \in ConcurrentCalls : StatementBegins(c, k)
    \/ \E c \in Callers : StatementEnds(c)
    \/ GetEpisode("a", TRUE)
    \/ Search(NoSearchParams, TRUE)

SpecConcurrent == Init /\ [][NextConcurrent]_vars


\* Episodes stored through add_memory without a group and under a group,
\* with the embedding service up or down, and the four searching requests
\* of the adapters without a group, with that group and with the default
\* group, with and without query text.
GroupAdds ==
    {[r EXCEPT !.GroupID = g] : r \in AdapterAdds, g \in {"", "team"}}
GroupEmbeds == {o \in EmbedOutcomes : o.kind = "error" \/ o.vec = Some(V1)}
GroupSearches ==
    {[Query |-> t, GroupID |-> g, MaxResults |-> 0, Before |-> "", After |-> "",
      Tags |-> <<>>, Source |-> "", IncludeExpired |-> FALSE] :
        t \in {"", "words"}, g \in {"", "team", "default"}}
GroupLists ==
    {[GroupID |-> g, MaxResults |-> 0, Before |-> "", After |-> ""] :
        g \in {"", "team", "default"}}

NextGroups ==
    \/ \E req \in GroupAdds, o \in GroupEmbeds : McpAddMemory(req, o, TRUE)
    \/ \E req \in GroupSearches, o \in GroupEmbeds : HttpSearch(req, o, TRUE)
    \/ \E req \in GroupSearches, o \in GroupEmbeds : McpSearch(req, o, TRUE)
    \/ \E req \in GroupLists : HttpGetEpisodes(req, TRUE)
    \/ \E req \in GroupLists : McpGetEpisodes(req, TRUE)

SpecGroups == Init /\ [][NextGroups]_vars


\* The embedding service comes and goes: episodes are stored through
\* add_memory with it up or down, searched with and without query text
\* with it up or down, listed, and updated.
OutageSearches ==
    {[Query |-> t, GroupID |-> "", MaxResults |-> 0, Before |-> "", After |-> "",
      Tags |-> <<>>, Source |-> "", IncludeExpired |-> TRUE] :
        t \in {"", "words"}}
OutageLists == {[GroupID |-> "", MaxResults |-> 0, Before |-> "", After |-> ""]}
OutageHttpUpdates ==
    [Tags : {Null, Some(<<"y">>)}, ExpiresAt : {Null}, Metadata : {Null, Some(JsonObject(<<1>>))}]
OutageMcpUpdates ==
    [ID : UUIDs, Tags : {<<"y">>}, ExpiredAt : {""}, Metadata : {EmptyString}]

NextOutage ==
    \/ \E req \in AdapterAdds, o \in GroupEmbeds : HttpAddMemory(req, o, TRUE)
    \/ \E req \in AdapterAdds, o \in GroupEmbeds : McpAddMemory(req, o, TRUE)
    \/ \E req \in OutageSearches, o \in GroupEmbeds : HttpSearch(req, o, TRUE)
    \/ \E req \in OutageSearches, o \in GroupEmbeds : McpSearch(req, o, TRUE)
    \/ \E req \in OutageLists : HttpGetEpisodes(req, TRUE)
    \/ \E req \in OutageLists : McpGetEpisodes(req, TRUE)
    \/ \E id \in UUIDs, req \in OutageHttpUpdates : HttpUpdateEpisode(id, req, TRUE)
    \/ \E req \in OutageMcpUpdates : McpUpdateEpisode(req, TRUE)

SpecOutage == Init /\ [][NextOutage]_vars


(***************************************************************************)
(* Properties of the store API                                             *)
(***************************************************************************)

SameEpisode(a, b) ==
    /\ a.Content = b.Content /\ a.Name = b.Name /\ a.Source = b.Source
    /\ a.SourceModel = b.SourceModel
    /\ a.SourceDescription = b.SourceDescription
    /\ a.GroupID = b.GroupID /\ a.ValidAt = b.ValidAt
    /\ a.Metadata = b.Metadata
    /\ Elems(a.Tags) = Elems(b.Tags)
    /\ VecLen(a.Embedding) = VecLen(b.Embedding)
    /\ VecLen(a.Embedding) > 0 => a.Embedding = b.Embedding

\* C2: a GetEpisode of the id a successful InsertEpisode has just assigned
\* returns the inserted episode: content, name, source, source_model,
\* source_description, group_id, valid_at, metadata (the same string), tags
\* and embedding (same elements, same order).
C2_RoundTrip ==
    [][(res.op = "insert" /\ res.err = "" /\ res'.op = "get"
          /\ res'.id = res.ep.ID)
        => (res'.err = "" /\ SameEpisode(res'.ep, res.ep))]_vars

\* C3: a successful UpdateEpisode sets each of tags, expired_at and metadata
\* to the supplied value when one is supplied and leaves it as it was when
\* none is; it adds and removes no row and changes no other row.
C3_SparsePatch ==
    [][(res'.op = "update" /\ res'.err = "")
        => LET id == res'.id
               p == res'.params
           IN /\ id \in Ids(store)
              /\ Ids(store') = Ids(store)
              /\ Cardinality(store') = Cardinality(store)
              /\ \A r \in store : r.id # id => r \in store'
              /\ LET old == RowOf(store, id)
                     new == RowOf(store', id)
                 IN /\ new.tags = IF IsNull(p.Tags) THEN old.tags ELSE p.Tags
                    /\ new.expired_at =
                          IF IsNull(p.ExpiredAt) THEN old.expired_at ELSE p.ExpiredAt
                    /\ new.metadata =
                          IF IsNull(p.Metadata) THEN old.metadata ELSE p.Metadata]_vars

\* An update of tags alone has succeeded on an episode that keeps its
\* metadata, next to another episode.
C3_Witness ==
    /\ res.op = "update" /\ res.err = ""
    /\ ~IsNull(res.params.Tags) /\ IsNull(res.params.Metadata)
    /\ IsNull(res.params.ExpiredAt)
    /\ ~IsNull(RowOf(store, res.id).metadata)
    /\ RowOf(store, res.id).tags = res.params.Tags
    /\ Cardinality(store) = 2

\* C4: UpdateEpisode with no field set returns "no updates provided" for
\* any id; with a field set and no row of that id it returns "episode not
\* found"; either way the table is what it was.
C4_UpdateErrors ==
    [][res'.op = "update"
        => LET id == res'.id
               p == res'.params
               none == IsNull(p.Tags) /\ IsNull(p.ExpiredAt) /\ IsNull(p.Metadata)
           IN /\ none => res'.err = "no updates provided"
              /\ (~none /\ id \notin Ids(store)) => res'.err = "episode not found"
              /\ (~none /\ id \in Ids(store)) => res'.err = ""
              /\ res'.err # "" => store' = store]_vars

\* An update that sets a field has found no row in a table that has rows.
C4_Witness ==
    /\ res.op = "update" /\ res.err = "episode not found"
    /\ ~IsNull(res.params.Tags)
    /\ store # {} /\ res.id \notin Ids(store)

C6_GetEpisode ==
    [][res'.op = "get"
        => /\ store' = store
           /\ res'.err = "" <=> res'.id \in Ids(store)
           /\ res'.id \notin Ids(store)
                => res'.err = "episode not found" /\ "ep" \notin DOMAIN res'
           /\ res'.id \in Ids(store)
                => LET row == RowOf(store, res'.id)
                   IN /\ "ep" \in DOMAIN res'
                      /\ res'.ep.ID = res'.id
                      /\ res'.ep.Content = row.content
                      /\ res'.ep.Source = row.source
                      /\ res'.ep.Name = row.name
                      /\ res'.ep.GroupID = row.group_id
                      /\ res'.ep.CreatedAt = row.created_at
                      /\ res'.ep.ValidAt = row.valid_at
                      /\ res'.ep.ExpiredAt = row.expired_at
                      /\ res'.ep.Tags = row.tags
                      /\ res'.ep.Embedding = row.embedding]_vars

\* GetEpisode has returned "episode not found" for a deleted id while
\* another id is stored.
C6_Witness ==
    /\ res.op = "get" /\ res.err = "episode not found"
    /\ res.id \in UsedIds /\ store # {}

\* C7: every stored episode has a non-empty group_id; InsertEpisode turns an
\* empty group_id into "default", in the row and in the caller's record,
\* and keeps a non-empty one; no call changes the group_id of a stored row.
C7_GroupNeverEmpty ==
    [][/\ \A r \in store' : r.group_id # ""
       /\ res'.op = "insert"
          => /\ res'.ep.GroupID =
                   IF res'.arg.GroupID = "" THEN "default" ELSE res'.arg.GroupID
             /\ res'.err = ""
                  => RowOf(store', res'.ep.ID).group_id = res'.ep.GroupID
       /\ \A r \in store, q \in store' :
             r.id = q.id => r.group_id = q.group_id]_vars

\* An insert without a group has stored "default" next to an episode of
\* group "team".
C7_Witness ==
    /\ res.op = "insert" /\ res.err = "" /\ res.arg.GroupID = ""
    /\ RowOf(store, res.ep.ID).group_id = "default"
    /\ \E r \in store : r.group_id = "team"

\* C8: no two stored episodes share an id; a call changes no row's id; an
\* insert with a stored id fails and leaves the table as it was; a
\* successful insert never takes an id under which another episode (one of
\* other content) has been stored before, also when that episode has been
\* deleted since.
C8_IdNeverReused ==
    [][/\ \A r, q \in store' : r.id = q.id => r = q
       /\ res'.op = "update" => Ids(store') = Ids(store)
       /\ (res'.op = "insert" /\ res'.arg.ID \in Ids(store))
          => res'.err # "" /\ store' = store
       /\ (res'.op = "insert" /\ res'.err = "")
          => \A h \in assigned :
                h.id = res'.ep.ID => h.content = res'.ep.Content]_vars

(***************************************************************************)
(* Properties of Search                                                    *)
(***************************************************************************)
\* The filters of a search other than tags and expiration, on a row.
OtherFilters(r, p) ==
    /\ p.Query = "" \/ ~IsNull(r.embedding)
    /\ p.GroupID = "" \/ r.group_id = p.GroupID
    /\ p.Source = "" \/ r.source = p.Source
    /\ IsNull(p.Before) \/ r.created_at < p.Before[1]
    /\ IsNull(p.After) \/ r.created_at > p.After[1]
NotExpired(r, t) == IsNull(r.expired_at) \/ r.expired_at[1] > t
HasAllTags(r, T) == SeqToSet(T) \subseteq SeqToSet(Elems(r.tags))
ReturnedIds(eps) == {eps[i].ID : i \in 1..Len(eps)}
Cap(p) == IF p.MaxResults > 0 THEN p.MaxResults ELSE 10

\* C9: a Search with a non-empty tags list returns only episodes that have
\* every listed tag, never an episode without tags, and, when the matches
\* fit under the cap, every stored episode that passes the other filters
\* and has all the listed tags.
C9_TagsAnd ==
    (res.op = "search" /\ res.err = "" /\ Len(res.params.Tags) > 0)
    => LET p == res.params
           M == {r \in store :
                   /\ OtherFilters(r, p)
                   /\ p.IncludeExpired \/ NotExpired(r, res.at)
                   /\ HasAllTags(r, p.Tags)}
       IN /\ \A i \in 1..Len(res.eps) :
                /\ SeqToSet(p.Tags) \subseteq SeqToSet(Elems(res.eps[i].Tags))
                /\ Len(Elems(res.eps[i].Tags)) > 0
          /\ Cardinality(M) <= Cap(p) => ReturnedIds(res.eps) = Ids(M)

\* A search for tags x and y has returned the one episode that has both,
\* while an episode tagged x alone and one without tags are stored.
C9_Witness ==
    /\ res.op = "search" /\ res.err = ""
    /\ res.params.Tags = <<"x", "y">>
    /\ Len(res.eps) = 1
    /\ Cardinality(store) = 2
    /\ \E r \in store : r.tags = Some(<<"x">>)

\* C10: a Search with IncludeExpired false returns no episode whose
\* expired_at is set and not later than the time of the search, and (when
\* the matches fit under the cap) every episode passing the other filters
\* whose expired_at is absent or later; with IncludeExpired true it applies
\* no expiration condition, so expired episodes passing the other filters
\* are returned; an update that sets expired_at removes no row, and
\* GetEpisode still returns an expired episode.
C10_Expiration ==
    [][/\ (res'.op = "search" /\ res'.err = "")
          => LET p == res'.params
                 t == res'.at
                 M == {r \in store :
                         /\ OtherFilters(r, p)
                         /\ HasAllTags(r, p.Tags)
                         /\ p.IncludeExpired \/ NotExpired(r, t)}
             IN /\ ~p.IncludeExpired
                     => \A i \in 1..Len(res'.eps) :
                           \/ IsNull(res'.eps[i].ExpiredAt)
                           \/ res'.eps[i].ExpiredAt[1] > t
                /\ Cardinality(M) <= Cap(p) => ReturnedIds(res'.eps) = Ids(M)
                /\ Len(res'.eps) <= Cap(p)
       /\ (res'.op = "update" /\ res'.err = "" /\ ~IsNull(res'.params.ExpiredAt))
          => /\ Ids(store') = Ids(store)
             /\ RowOf(store', res'.id).expired_at = res'.params.ExpiredAt
       /\ (res'.op = "get" /\ res'.id \in Ids(store))
          => /\ res'.err = ""
             /\ res'.ep.ExpiredAt = RowOf(store, res'.id).expired_at]_vars

\* A default search has left out an episode whose expired_at is the very
\* time of the search and returned one that expires later.
C10_Witness ==
    /\ res.op = "search" /\ res.err = "" /\ ~res.params.IncludeExpired
    /\ \E r \in store :
          /\ r.expired_at = Some(res.at)
          /\ r.id \notin ReturnedIds(res.eps)
    /\ \E i \in 1..Len(res.eps) :
          /\ ~IsNull(res.eps[i].ExpiredAt)
          /\ res.eps[i].ExpiredAt[1] > res.at
\* C11: a Search returns min(L, M) episodes, M the number of stored
\* episodes matching all filters and L MaxResults when it is positive and 10
\* otherwise, and returns no episode twice.
C11_ResultCap ==
    (res.op = "search" /\ res.err = "")
    => LET p == res.params
           M == {r \in store :
                   /\ OtherFilters(r, p)
                   /\ HasAllTags(r, p.Tags)
                   /\ p.IncludeExpired \/ NotExpired(r, res.at)}
           L == IF p.MaxResults > 0 THEN p.MaxResults ELSE 10
       IN /\ Len(res.eps) = IF L < Cardinality(M) THEN L ELSE Cardinality(M)
          /\ Cardinality(ReturnedIds(res.eps)) = Len(res.eps)
          /\ ReturnedIds(res.eps) \subseteq Ids(M)

\* A search with MaxResults 0 over eleven matching episodes has returned
\* ten of them.
C11_Witness ==
    /\ res.op = "search" /\ res.err = ""
    /\ res.params.MaxResults = 0 /\ res.params.Source = ""
    /\ Cardinality(store) = 11
    /\ Len(res.eps) = 10

\* C12: every episode a Search returns satisfies all supplied predicates at
\* once (group_id and source equal to the non-empty parameters, created_at
\* strictly before Before and strictly after After when set); an unset
\* filter excludes nothing, and when the matches fit under the cap every
\* stored episode satisfying all supplied predicates is returned.
C12_FilterConjunction ==
    (res.op = "search" /\ res.err = "")
    => LET p == res.params
           M == {r \in store :
                   /\ p.Query = "" \/ ~IsNull(r.embedding)
                   /\ p.GroupID = "" \/ r.group_id = p.GroupID
                   /\ p.Source = "" \/ r.source = p.Source
                   /\ IsNull(p.Before) \/ r.created_at < p.Before[1]
                   /\ IsNull(p.After) \/ r.created_at > p.After[1]
                   /\ HasAllTags(r, p.Tags)
                   /\ p.IncludeExpired \/ NotExpired(r, res.at)}
       IN /\ \A i \in 1..Len(res.eps) :
                LET e == res.eps[i]
                IN /\ p.GroupID # "" => e.GroupID = p.GroupID
                   /\ p.Source # "" => e.Source = p.Source
                   /\ ~IsNull(p.Before) => e.CreatedAt < p.Before[1]
                   /\ ~IsNull(p.After) => e.CreatedAt > p.After[1]
                   /\ e.ID \in Ids(store)
          /\ Cardinality(M) <= Cap(p) => ReturnedIds(res.eps) = Ids(M)

\* A search with group, source, before and after all set has returned the
\* one stored episode that passes the four of them and not the other.
C12_Witness ==
    /\ res.op = "search" /\ res.err = ""
    /\ res.params.GroupID = "team" /\ res.params.Source = "web"
    /\ ~IsNull(res.params.Before) /\ ~IsNull(res.params.After)
    /\ Len(res.eps) = 1
    /\ Cardinality(store) = 2

\* The stored rows a search's results are drawn from.
Matching(p, t) ==
    {r \in store :
        /\ OtherFilters(r, p)
        /\ HasAllTags(r, p.Tags)
        /\ p.IncludeExpired \/ NotExpired(r, t)}
Unencodable(q) == q # <<>> /\ "nan" \in DOMAIN q[1]

\* C13: a Search without a query vector, or whose query vector cannot be
\* encoded, returns its results by created_at descending, and they are the
\* most recent matching episodes up to the cap.
C13_TemporalOrder ==
    (res.op = "search" /\ res.err = ""
        /\ (res.params.QueryEmbedding = <<>> \/ Unencodable(res.params.QueryEmbedding)))
    => LET p == res.params
           M == Matching(p, res.at)
           left == {r \in M : r.id \notin ReturnedIds(res.eps)}
       IN /\ \A i \in 1..Len(res.eps) - 1 :
                res.eps[i].CreatedAt >= res.eps[i + 1].CreatedAt
          /\ ReturnedIds(res.eps) \subseteq Ids(M)
          /\ left # {} => Len(res.eps) = Cap(p)
          /\ \A r \in left : \A i \in 1..Len(res.eps) :
                r.created_at <= res.eps[i].CreatedAt

\* A search whose query vector holds a NaN, capped at one result, has
\* returned the later of two episodes created at different instants.
C13_Witness ==
    /\ res.op = "search" /\ res.err = ""
    /\ Unencodable(res.params.QueryEmbedding)
    /\ res.params.Query = "" /\ res.params.MaxResults = 1
    /\ Len(res.eps) = 1
    /\ \E r \in store : r.created_at < res.eps[1].CreatedAt

\* cos(a, q) > cos(b, q) for vectors whose products with q are not negative.
Closer(a, b, q) ==
    LET dot(x, y) == x.lead[1] * y.lead[1] + x.lead[2] * y.lead[2]
    IN dot(a, q) * dot(a, q) * dot(b, b) > dot(b, q) * dot(b, q) * dot(a, a)

\* C14: a Search with a query vector q (768 components, all finite) returns
\* its results by descending cosine similarity of the stored embedding to q,
\* whatever their created_at, and the cap keeps the most similar matches.
C14_SemanticOrder ==
    (res.op = "search" /\ res.err = ""
        /\ res.params.QueryEmbedding # <<>>
        /\ ~Unencodable(res.params.QueryEmbedding))
    => LET p == res.params
           q == p.QueryEmbedding[1]
           M == Matching(p, res.at)
           left == {r \in M : r.id \notin ReturnedIds(res.eps)}
       IN /\ \A i, j \in 1..Len(res.eps) :
                (i < j /\ res.eps[i].Embedding # <<>> /\ res.eps[j].Embedding # <<>>)
                => ~Closer(res.eps[j].Embedding[1], res.eps[i].Embedding[1], q)
          /\ ReturnedIds(res.eps) \subseteq Ids(M)
          /\ left # {} => Len(res.eps) = Cap(p)
          /\ \A r \in left : \A i \in 1..Len(res.eps) :
                r.embedding # <<>>
                => /\ res.eps[i].Embedding # <<>>
                   /\ ~Closer(r.embedding[1], res.eps[i].Embedding[1], q)

\* A search with a query vector has ranked an episode ahead of a less
\* similar one that was created later.
C14_Witness ==
    /\ res.op = "search" /\ res.err = ""
    /\ res.params.QueryEmbedding # <<>>
    /\ ~Unencodable(res.params.QueryEmbedding)
    /\ Len(res.eps) = 2
    /\ res.eps[1].Embedding # <<>> /\ res.eps[2].Embedding # <<>>
    /\ Closer(res.eps[1].Embedding[1], res.eps[2].Embedding[1],
              res.params.QueryEmbedding[1])
    /\ res.eps[1].CreatedAt < res.eps[2].CreatedAt

\* C15 as stated: for every search request with query text whose embedding
\* call failed or timed out, the handler calls Store.Search with no query
\* vector and returns what the store returns, by created_at descending.
C15_SearchNeverFails ==
    (res.op \in {"http_search", "mcp_search"} /\ res.req.Query # ""
        /\ res.embed[1].kind \in {"error", "timeout"})
    => /\ res.searched
       /\ res.params.QueryEmbedding = <<>>
       /\ res.status = 200 <=> res.engineUp

\* C15, amended: for a search request with query text (on HTTP, with before
\* and after empty or RFC 3339) whose embedding call failed or timed out,
\* the handler calls Store.Search with no query vector; with the store up it
\* answers with success and the matching episodes that have an embedding,
\* the most recent first up to the cap, and with the store down with the
\* store's failure.
C15_DegradedSearch ==
    (res.op \in {"http_search", "mcp_search"} /\ res.req.Query # ""
        /\ res.embed[1].kind \in {"error", "timeout"}
        /\ (res.op = "http_search"
              => /\ res.req.Before \in {""} \cup {RFC3339(t) : t \in 1..MaxTime}
                 /\ res.req.After \in {""} \cup {RFC3339(t) : t \in 1..MaxTime}))
    => /\ res.searched
       /\ res.params.QueryEmbedding = <<>>
       /\ res.params.Query = res.req.Query
       /\ IF res.engineUp
          THEN LET M == Matching(res.params, res.at)
                   left == {r \in M : r.id \notin ReturnedIds(res.eps)}
               IN /\ res.status = 200
                  /\ \A i \in 1..Len(res.eps) - 1 :
                        res.eps[i].CreatedAt >= res.eps[i + 1].CreatedAt
                  /\ ReturnedIds(res.eps) \subseteq Ids(M)
                  /\ left # {} => Len(res.eps) = Cap(res.params)
                  /\ \A r \in left : \A i \in 1..Len(res.eps) :
                        r.created_at <= res.eps[i].CreatedAt
          ELSE /\ res.status = 500
               /\ res.message \in {"Search failed", "search failed"}

\* An HTTP search with query text has answered with the later of two
\* embedded episodes after the embedding call timed out.
C15_Witness ==
    /\ res.op = "http_search" /\ res.req.Query # ""
    /\ res.embed[1].kind = "timeout"
    /\ res.status = 200
    /\ res.req.MaxResults = 1
    /\ Len(res.eps) = 1
    /\ \E r \in store : r.embedding # <<>> /\ r.created_at < res.eps[1].CreatedAt

\* C16: under any sequence of MCP tool calls and HTTP requests no stored
\* episode id ever leaves the store, a request for deletion finds no route
\* or tool and changes nothing, and every episode once stored is still
\* returned by GetEpisode.
C16_NoDeletion ==
    [][/\ Ids(store) \subseteq Ids(store')
       /\ UsedIds' \subseteq Ids(store')
       /\ res'.op \in {"http_no_route", "mcp_no_tool"}
            => res'.status \in {404, 405, 500} /\ store' = store
       /\ (res'.op = "get" /\ res'.id \in UsedIds) => res'.err = ""]_vars

\* An episode stored through one adapter and updated through the other is
\* still stored when a DELETE request on its path is answered with 405.
C16_Witness ==
    /\ res.op = "http_no_route" /\ res.method = "DELETE" /\ res.status = 405
    /\ Cardinality(store) = 2
    /\ \E r \in store : r.expired_at # <<>>
    /\ \E r \in store : r.tags # <<>>

\* C17: under UpdateEpisode, GetEpisode and Search calls every stored
\* episode keeps its id, content, source, name, source_model,
\* source_description, group_id, created_at, valid_at and embedding; only
\* tags, expired_at and metadata can change.
C17_ImmutableFields ==
    [][\A r \in store :
          \E r2 \in store' :
             /\ r2.id = r.id
             /\ r2.content = r.content /\ r2.source = r.source
             /\ r2.name = r.name /\ r2.source_model = r.source_model
             /\ r2.source_description = r.source_description
             /\ r2.group_id = r.group_id /\ r2.created_at = r.created_at
             /\ r2.valid_at = r.valid_at /\ r2.embedding = r.embedding
             /\ \A q \in store' : q.id = r.id => q = r2]_vars

\* An update that set tags, expired_at and metadata at once has changed
\* all three on an episode stored with an embedding and a valid_at.
C17_Witness ==
    /\ res.op = "update" /\ res.err = ""
    /\ res.params.Tags # <<>> /\ res.params.ExpiredAt # <<>>
    /\ res.params.Metadata # <<>>
    /\ \E r \in store :
         /\ r.id = res.id
         /\ r.embedding # <<>> /\ r.valid_at # <<>>
         /\ r.tags = res.params.Tags
         /\ r.expired_at = res.params.ExpiredAt
         /\ r.metadata = res.params.Metadata

\* C18: every stored embedding is absent or has exactly 768 elements; an
\* insert whose embedding has another non-zero length fails, is reported as
\* a failure, and stores no row (neither with that vector nor with the
\* vector dropped or altered).
C18_EmbeddingDimension ==
    [][/\ \A r \in store' : r.embedding = <<>> \/ r.embedding[1].dim = 768
       /\ (res'.op \in {"http_add_memory", "mcp_add_memory"} /\ res'.inserted
             /\ res'.embed[1].kind = "vector"
             /\ res'.embed[1].vec[1].dim \notin {0, 768})
          => /\ store' = store
             /\ res'.status = 500
       /\ (res'.op \in {"http_add_memory", "mcp_add_memory"} /\ res'.inserted
             /\ res'.status = 200 /\ res'.embed[1].kind = "vector"
             /\ res'.embed[1].vec[1].dim = 768)
          => \E r \in store' : r.id = res'.ep.ID /\ r.embedding = res'.embed[1].vec]_vars

\* An add_memory whose embedding service returned 1024 components has
\* failed, next to an episode stored with its 768-component vector.
C18_Witness ==
    /\ res.op \in {"http_add_memory", "mcp_add_memory"} /\ res.inserted
    /\ res.engineUp
    /\ res.embed[1].kind = "vector" /\ res.embed[1].vec[1].dim = 1024
    /\ res.status = 500
    /\ \E r \in store : r.embedding # <<>> /\ r.embedding[1].dim = 768

\* C19: no add_memory request with empty content or empty source reaches
\* InsertEpisode, on either adapter: it is rejected as a caller error, and
\* no stored episode has empty content or empty source.
C19_RequiredFields ==
    /\ (res.op \in {"http_add_memory", "mcp_add_memory"}
          /\ (res.req.Content = "" \/ res.req.Source = "")
          /\ res.engineUp)
       => ~res.inserted /\ res.status = 400
    /\ \A r \in store : r.content # "" /\ r.source # ""

\* C20: NewStore on a file that already has the current schema returns no
\* error, runs no migration step, leaves the table, every index and every
\* stored episode as they were, and creates no table or index twice, at
\* every one of any number of consecutive starts.
C20_IdempotentSetup ==
    [][res'.op = "NewStore"
       => /\ res'.err = ""
          /\ ~res'.migrated
          /\ store' = store
          /\ schema'.created_at = schema.created_at
          /\ schema'.created_at = "TIMESTAMP WITH TIME ZONE"
          /\ Cardinality({schema'.indexes[i] : i \in 1..Len(schema'.indexes)})
                = Len(schema'.indexes)
          /\ \A i \in 1..Len(schema.indexes) : schema'.indexes[i] = schema.indexes[i]
          /\ \A i \in 1..Len(schema'.indexes) :
                i > Len(schema.indexes) => schema'.indexes[i] = "idx_episodes_embedding"]_vars

\* The process has started again on a file that holds two episodes and all
\* five indexes.
C20_Witness ==
    /\ res.op = "NewStore" /\ res.err = ""
    /\ Cardinality(store) = 2
    /\ Len(schema.indexes) = 5
    /\ \E r \in store : r.expired_at # <<>>

C22_MigrationFailure ==
    [][(res'.op = "NewStore" /\ schema.created_at = "TIMESTAMP" /\ store # {})
       => /\ res'.fault \in 1..MigrationSteps
               => /\ res'.err # ""
                  /\ schema'.created_at # "absent"
                  /\ store' = store
          /\ res'.err = "" => schema'.created_at = "TIMESTAMP WITH TIME ZONE"]_vars

\* C27: once NewStore has returned a Store, a process that has ended has
\* closed the engine handle exactly once, and no store call is made on a
\* closed handle; when NewStore returned an error the handle it opened is
\* closed.
C27_CloseOnce ==
    /\ proc.pc = "exited" => (proc.handle = "closed" /\ proc.closes = 1)
    /\ res.op \in {"insert", "get"} => proc.handle = "open"
    /\ (res.op = "NewStore" /\ res.err # "") => proc.handle = "closed"

\* C23: no stored episode has an empty array as its tags: an insert with
\* empty or nil tags and an update of the tags to an empty list both leave
\* the tags column NULL, and GetEpisode returns absent tags for both.
C23_EmptyIsAbsent ==
    /\ \A r \in store : r.tags # Some(<<>>)
    /\ (res.op = "get" /\ res.err = "") => res.ep.Tags # Some(<<>>)

C25_DeterministicTies ==
    [][(res.op = "search" /\ res.err = ""
          /\ res'.op = "search" /\ res'.err = ""
          /\ res'.params = res.params /\ res'.at = res.at
          /\ store' = store)
       => res'.eps = res.eps]_vars

\* C26: with callers running InsertEpisode, UpdateEpisode, DeleteEpisode,
\* GetEpisode and Search side by side, the committed table changes only by
\* whole statements: a successful insert adds its complete row, a
\* successful update sets every supplied field of its row at once and no
\* other, and an insert or update that returns an error changes no row; so
\* every episode a GetEpisode or a Search returns is a stored row as one
\* of these statements left it.
C26_AllOrNothing ==
    [][/\ store' # store
          => \/ /\ res'.op = "insert" /\ res'.err = ""
                /\ res'.ep.ID \notin Ids(store)
                /\ store' = store \cup {InsertRow(res'.ep)}
             \/ /\ res'.op = "update" /\ res'.err = ""
                /\ \E r \in store :
                     /\ r.id = res'.id
                     /\ store' = (store \ {r}) \cup
                          {[r EXCEPT
                              !.tags = IF IsNull(res'.params.Tags) THEN @
                                       ELSE res'.params.Tags,
                              !.expired_at = IF IsNull(res'.params.ExpiredAt) THEN @
                                             ELSE res'.params.ExpiredAt,
                              !.metadata = IF IsNull(res'.params.Metadata) THEN @
                                           ELSE res'.params.Metadata]}
             \/ /\ res'.op = "delete" /\ res'.err = ""
                /\ store' = {r \in store : r.id # res'.id}
       /\ (res'.op \in {"insert", "update"} /\ res'.err # "") => store' = store
       /\ (res'.op = "get" /\ res'.err = "")
          => \E r \in store : res'.ep = scanEpisode(r)
       /\ (res'.op = "search" /\ res'.err = "")
          => \A i \in 1..Len(res'.eps) :
                \E r \in store : res'.eps[i] = scanEpisode(r)]_vars

\* A reader has fetched the episode while one caller's update of two of
\* its fields and another caller's delete were in flight.
C26_Witness ==
    /\ res.op = "get" /\ res.err = ""
    /\ \E c \in Callers :
          /\ calls[c].pc = "running" /\ calls[c].call.op = "update"
          /\ ~IsNull(calls[c].call.p.Tags) /\ ~IsNull(calls[c].call.p.ExpiredAt)
          /\ calls[c].seen # {}
    /\ \E c \in Callers : calls[c].pc = "running" /\ calls[c].call.op = "delete"

\* The statements of the calls a and b have recorded were in flight at the
\* same time, both on a stored row, and both calls have returned.
SideBySide(a, b) ==
    /\ a # b
    /\ calls[a].pc = "done" /\ calls[b].pc = "done"
    /\ a \in calls[b].with \/ b \in calls[a].with
    /\ calls[a].call.id = calls[b].call.id
    /\ calls[a].seen # {} /\ calls[b].seen # {}
UpdateAndDelete(a, b) ==
    /\ SideBySide(a, b)
    /\ calls[a].call.op = "update" /\ calls[b].call.op = "delete"
TwoDeletes(a, b) ==
    /\ SideBySide(a, b)
    /\ calls[a].call.op = "delete" /\ calls[b].call.op = "delete"

\* C30 as stated: after an UpdateEpisode and a DeleteEpisode of the same
\* stored episode have run side by side, the row is absent and either both
\* succeeded or the delete succeeded and the update returned "episode not
\* found"; two such DeleteEpisode calls never both report success.
C30_SequentialOutcome ==
    \A a, b \in Callers :
        /\ UpdateAndDelete(a, b)
             => /\ calls[a].call.id \notin Ids(store)
                /\ calls[b].err = ""
                /\ calls[a].err \in {"", "episode not found"}
        /\ TwoDeletes(a, b) => ~(calls[a].err = "" /\ calls[b].err = "")

\* C30, amended: after an UpdateEpisode and a DeleteEpisode of the same
\* stored episode have run side by side, at least one of them has
\* succeeded, and the row is absent exactly when the delete has.  When the
\* delete failed it returned the engine's error, the update succeeded and
\* the row is the updated row; when the update failed it returned the
\* engine's error or "episode not found" and the delete succeeded.  An
\* update never brings back a deleted row, and of two such DeleteEpisode
\* calls exactly one reports success.
C30_UpdateDelete ==
    \A a, b \in Callers :
        /\ UpdateAndDelete(a, b)
             => LET id == calls[a].call.id
                    old == CHOOSE r \in calls[a].seen : TRUE
                IN /\ calls[a].err = "" \/ calls[b].err = ""
                   /\ calls[b].err = "" <=> id \notin Ids(store)
                   /\ calls[b].err # ""
                        => /\ calls[b].err = "failed to delete episode"
                           /\ calls[a].err = ""
                           /\ {r \in store : r.id = id}
                                = {[old EXCEPT
                                      !.tags = IF IsNull(calls[a].call.p.Tags) THEN @
                                               ELSE calls[a].call.p.Tags,
                                      !.expired_at =
                                          IF IsNull(calls[a].call.p.ExpiredAt) THEN @
                                          ELSE calls[a].call.p.ExpiredAt]}
                   /\ calls[a].err # ""
                        => /\ calls[a].err \in {"failed to update episode",
                                                "episode not found"}
                           /\ calls[b].err = ""
        /\ TwoDeletes(a, b)
             => /\ (calls[a].err = "") # (calls[b].err = "")
                /\ calls[a].call.id \notin Ids(store)

\* An update and a delete of the same row overlapped: the update was
\* committed first and the delete has returned the engine's error, leaving
\* the updated row.
C30_Witness ==
    \E a, b \in Callers :
        /\ UpdateAndDelete(a, b)
        /\ calls[a].err = "" /\ calls[b].err = "failed to delete episode"
        /\ calls[a].call.id \in Ids(store)

\* The searching requests of the two adapters.
SearchOps == {"http_search", "mcp_search", "http_get_episodes", "mcp_get_episodes"}

\* C28 as stated: every episode a searching request of an adapter returns
\* is of the group the request names, or of group "default" when the
\* request names none.
C28_HardPartition ==
    (res.op \in SearchOps /\ res.status = 200)
    => \A i \in 1..Len(res.eps) :
          res.eps[i].GroupID
            = IF res.req.GroupID = "" THEN "default" ELSE res.req.GroupID

====
